---- MODULE Spec2Model ----
(***************************************************************************)
(* keylightd: the activity-driven keyboard backlight daemon of src/main.rs *)
(* The model follows main() and fade_to() command by command: every call   *)
(* of ec.command is one step that either succeeds or fails, and a failure  *)
(* leaves main() through the ? operator.                                   *)
(***************************************************************************)
EXTENDS Integers, Sequences, FiniteSets, TLC

\* ---------------------------------------------------------------- bounds
\* parse_brightness accepts 0..=100
MaxPercent == 100
\* the default of --brightness
DefaultBrightness == 30
\* width of u8
U8 == 256
\* number of readiness waits a run of main() is followed for
MaxTicks == 4
\* number of changes made to the backlight from outside the daemon
MaxExt == 1

Percents == 0..MaxPercent
\* the levels the main loop is configured with and the controller is found at
\* or set to from outside: the ends of the range, the levels around the LED
\* switch, the default brightness and the mid-range level of the fade-down
\* scenario
Levels == {0, 1, 2, DefaultBrightness, 50, MaxPercent}

VARIABLES
    power,               \* args.power
    persist_brightness,  \* args.persist_brightness
    brightness,          \* args.brightness
    active,              \* main: let mut active
    max_brightness,      \* main: let mut max_brightness
    events_empty,        \* main: events.is_empty() after the last poll
    target,              \* fade_to: target
    resp,                \* fade_to: resp, the response to GetKeyboardBacklight
    cur,                 \* fade_to: let mut cur
    pc,                  \* position of the single thread
    caller,              \* "main", or "fade_to" when fade_to is run on its own
    kb_enabled,          \* embedded controller: keyboard backlight enabled
    kb_percent,          \* embedded controller: keyboard backlight percent
    led,                 \* embedded controller: power LED flags
    cmds,                \* commands issued since the last readiness wait returned
    fade_calls,          \* fade_to calls made since the last readiness wait returned
    activations,         \* Idle -> Active fades started since the start
    last_sample,         \* what the controller held at the last persist resample
    was_active,          \* the phase when the last readiness wait returned
    slept,               \* the 500 ms pause was taken since the last readiness wait returned
    in_sync0,            \* at the start the power LED was off exactly when the backlight was
    ticks,               \* readiness waits returned so far
    ext                  \* changes made from outside so far

vars == <<power, persist_brightness, brightness, active, max_brightness,
          events_empty, target, resp, cur, pc, caller, kb_enabled, kb_percent,
          led, cmds, fade_calls, activations, last_sample, was_active, slept,
          in_sync0, ticks, ext>>

args == <<power, persist_brightness, brightness>>
hw == <<kb_enabled, kb_percent, led>>
ghost == <<activations, last_sample, was_active, slept, ticks, ext>>

NoSample == [valid |-> FALSE, enabled |-> FALSE, percent |-> 0]

\* ------------------------------------------------------------ commands
\* A command as it is handed to ec.command; ok tells whether it succeeded.
Cmd(op, percent, flags, ok) == [op |-> op, percent |-> percent, flags |-> flags, ok |-> ok]
GetKeyboardBacklight(ok) == Cmd("GetKeyboardBacklight", 0, "", ok)
SetKeyboardBacklight(p, ok) == Cmd("SetKeyboardBacklight", p, "", ok)
LedControl(flags, ok) == Cmd("LedControl", 0, flags, ok)

\* The state of the controller after a successful SetKeyboardBacklight.
EcSetKeyboardBacklight(p) ==
    /\ kb_percent' = p
    /\ kb_enabled' = (p > 0)
    /\ UNCHANGED led

\* The state of the controller after a successful LedControl of the power LED.
EcLedControl(flags) ==
    /\ led' = flags
    /\ UNCHANGED <<kb_enabled, kb_percent>>

\* The response to a successful GetKeyboardBacklight.
EcGetKeyboardBacklight == [enabled |-> kb_enabled, percent |-> kb_percent]

\* ? on a failed command or poll: main() returns the error, the process ends.
Exit == pc' = "exit"

\* ------------------------------------------------------------- fade_to
\* fade_to(&ec, power, t) is entered; n calls were made in this iteration before
CallFade(t, n) ==
    /\ target' = t
    /\ pc' = "fade_get"
    /\ fade_calls' = n + 1

\* the reported percent taken as it is, without the test of resp.enabled
EffectiveCurrentRaw(r) == r.percent

\* let mut cur = if resp.enabled != 0 { resp.percent } else { 0 };
EffectiveCurrent(r) == IF r.enabled THEN r.percent ELSE 0

\* a fade that writes the target at once instead of ramping
StepTowardJump(c, t) == t

\* the branch on cur > target left out: cur only ever counts up
StepTowardUpOnly(c, t) == (c + 1) % U8

\* the comparison turned round: cur moves away from the target
StepTowardAway(c, t) == IF c < t THEN (c - 1 + U8) % U8 ELSE (c + 1) % U8

\* if cur > target { cur -= 1 } else { cur += 1 }, on a u8
StepToward(c, t) == IF c > t THEN (c - 1 + U8) % U8 ELSE (c + 1) % U8

\* the LED set back to auto at every non-zero level, as the comment in
\* fade_to words it, instead of only at cur == 1
LedFlagsForNonZero(p, c) ==
    IF ~p THEN "" ELSE IF c = 0 THEN "NONE" ELSE "AUTO"

\* the LED branch without the test of power
LedFlagsForIgnoringPower(p, c) ==
    IF c = 0 THEN "NONE" ELSE IF c = 1 THEN "AUTO" ELSE ""

\* the LED switched back on one level late, at cur == 2
LedFlagsForLate(p, c) ==
    IF ~p THEN "" ELSE IF c = 0 THEN "NONE" ELSE IF c = 2 THEN "AUTO" ELSE ""

\* the LED branch of a step: which flags, if any, are written for cur
LedFlagsFor(p, c) ==
    IF ~p THEN "" ELSE IF c = 0 THEN "NONE" ELSE IF c = 1 THEN "AUTO" ELSE ""

\* the 500 ms sleep moved into the branch of the activity that finds the phase
\* Active: after the fade out of Idle the loop goes straight on
FadeReturnNoPause ==
    IF caller = "main"
    THEN active' = ~events_empty /\ pc' = "poll"
    ELSE pc' = "returned" /\ UNCHANGED active

\* Ok(()) of fade_to, back in its caller: main sets active after the fade
FadeReturn ==
    IF caller = "main"
    THEN IF events_empty
         THEN active' = FALSE /\ pc' = "poll"
         ELSE active' = TRUE /\ pc' = "sleep"
    ELSE pc' = "returned" /\ UNCHANGED active

\* the loop written as do-while: the first step is taken before cur is compared
FadeGetDoWhile ==
    /\ pc = "fade_get"
    /\ \/ /\ cmds' = Append(cmds, GetKeyboardBacklight(TRUE))
          /\ resp' = EcGetKeyboardBacklight
          /\ cur' = StepToward(EffectiveCurrent(resp'), target)
          /\ pc' = IF LedFlagsFor(power, cur') # "" THEN "fade_led" ELSE "fade_set"
       \/ /\ cmds' = Append(cmds, GetKeyboardBacklight(FALSE))
          /\ Exit
          /\ UNCHANGED <<resp, cur>>
    /\ UNCHANGED <<args, in_sync0, active, max_brightness, events_empty, target, caller,
                   hw, fade_calls, ghost>>

\* let resp = ec.command(GetKeyboardBacklight)?; let mut cur = ...
FadeGet ==
    /\ pc = "fade_get"
    /\ \/ /\ cmds' = Append(cmds, GetKeyboardBacklight(TRUE))
          /\ resp' = EcGetKeyboardBacklight
          /\ cur' = EffectiveCurrent(resp')
          /\ pc' = "fade_loop"
       \/ /\ cmds' = Append(cmds, GetKeyboardBacklight(FALSE))
          /\ Exit
          /\ UNCHANGED <<resp, cur>>
    /\ UNCHANGED <<args, in_sync0, active, max_brightness, events_empty, target, caller,
                   hw, fade_calls, ghost>>

\* a fade that can be cancelled: the loop may give up before cur is at the target
FadeLoopCancellable ==
    /\ pc = "fade_loop"
    /\ \/ /\ cur # target
          /\ cur' = StepToward(cur, target)
          /\ pc' = IF LedFlagsFor(power, cur') # "" THEN "fade_led" ELSE "fade_set"
          /\ UNCHANGED active
       \/ /\ FadeReturn
          /\ UNCHANGED cur
    /\ UNCHANGED <<args, in_sync0, max_brightness, events_empty, target, resp, caller,
                   hw, cmds, fade_calls, ghost>>

\* while cur != target { step cur; ... } Ok(())
FadeLoop ==
    /\ pc = "fade_loop"
    /\ IF cur # target
       THEN /\ cur' = StepToward(cur, target)
            /\ pc' = IF LedFlagsFor(power, cur') # "" THEN "fade_led" ELSE "fade_set"
            /\ UNCHANGED active
       ELSE /\ FadeReturn
            /\ UNCHANGED cur
    /\ UNCHANGED <<args, in_sync0, max_brightness, events_empty, target, resp, caller,
                   hw, cmds, fade_calls, ghost>>

\* the two commands of a step in the other order: the backlight is written
\* first and the LED switched after it
FadeLedAfterWrite ==
    /\ pc = "fade_led"
    /\ \/ /\ cmds' = cmds \o <<SetKeyboardBacklight(cur, TRUE),
                                LedControl(LedFlagsFor(power, cur), TRUE)>>
          /\ kb_percent' = cur /\ kb_enabled' = (cur > 0)
          /\ led' = LedFlagsFor(power, cur)
          /\ pc' = "fade_loop"
       \/ /\ cmds' = cmds \o <<SetKeyboardBacklight(cur, TRUE),
                                LedControl(LedFlagsFor(power, cur), FALSE)>>
          /\ kb_percent' = cur /\ kb_enabled' = (cur > 0)
          /\ UNCHANGED led
          /\ Exit
       \/ /\ cmds' = Append(cmds, SetKeyboardBacklight(cur, FALSE))
          /\ Exit
          /\ UNCHANGED hw
    /\ UNCHANGED <<args, in_sync0, active, max_brightness, events_empty, target, resp, cur,
                   caller, fade_calls, ghost>>

\* ec.command(LedControl { led_id: POWER, flags, brightness: default })?
FadeLed ==
    /\ pc = "fade_led"
    /\ \/ /\ cmds' = Append(cmds, LedControl(LedFlagsFor(power, cur), TRUE))
          /\ EcLedControl(LedFlagsFor(power, cur))
          /\ pc' = "fade_set"
       \/ /\ cmds' = Append(cmds, LedControl(LedFlagsFor(power, cur), FALSE))
          /\ Exit
          /\ UNCHANGED hw
    /\ UNCHANGED <<args, in_sync0, active, max_brightness, events_empty, target, resp, cur,
                   caller, fade_calls, ghost>>

\* the write without the ?: its error is dropped and the loop goes on
FadeSetUnchecked ==
    /\ pc = "fade_set"
    /\ \/ /\ cmds' = Append(cmds, SetKeyboardBacklight(cur, TRUE))
          /\ EcSetKeyboardBacklight(cur)
       \/ /\ cmds' = Append(cmds, SetKeyboardBacklight(cur, FALSE))
          /\ UNCHANGED hw
    /\ pc' = "fade_loop"
    /\ UNCHANGED <<args, in_sync0, active, max_brightness, events_empty, target, resp, cur,
                   caller, fade_calls, ghost>>

\* ec.command(SetKeyboardBacklight { percent: cur })?; thread::sleep(3 ms)
FadeSet ==
    /\ pc = "fade_set"
    /\ \/ /\ cmds' = Append(cmds, SetKeyboardBacklight(cur, TRUE))
          /\ EcSetKeyboardBacklight(cur)
          /\ pc' = "fade_loop"
       \/ /\ cmds' = Append(cmds, SetKeyboardBacklight(cur, FALSE))
          /\ Exit
          /\ UNCHANGED hw
    /\ UNCHANGED <<args, in_sync0, active, max_brightness, events_empty, target, resp, cur,
                   caller, fade_calls, ghost>>

\* ---------------------------------------------------------------- main
\* the dispatch without the test of active: every timeout fades to 0
DispatchFadeWhenIdle(e, mb, n) ==
    IF e
    THEN CallFade(0, n) /\ UNCHANGED activations
    ELSE IF ~active
         THEN CallFade(mb, n) /\ activations' = activations + 1
         ELSE pc' = "sleep" /\ target' = target /\ fade_calls' = n /\ UNCHANGED activations

\* the dispatch that does nothing on a timeout: the backlight is left on
DispatchNoFadeDown(e, mb, n) ==
    IF e
    THEN pc' = "poll" /\ target' = target /\ fade_calls' = n /\ UNCHANGED activations
    ELSE IF ~active
         THEN CallFade(mb, n) /\ activations' = activations + 1
         ELSE pc' = "sleep" /\ target' = target /\ fade_calls' = n /\ UNCHANGED activations

\* the dispatch without the test of !active: every activity fades again
DispatchAlwaysFade(e, mb, n) ==
    IF e
    THEN IF active
         THEN CallFade(0, n) /\ UNCHANGED activations
         ELSE pc' = "poll" /\ target' = target /\ fade_calls' = n /\ UNCHANGED activations
    ELSE CallFade(mb, n) /\ activations' = activations + (IF active THEN 0 ELSE 1)

\* if events.is_empty() { if active { fade_to(0) } }
\* else { if !active { fade_to(max_brightness) } sleep(500 ms) }
\* e is events.is_empty(), mb the value of max_brightness at that point,
\* n the fade_to calls already made in this iteration
Dispatch(e, mb, n) ==
    IF e
    THEN IF active
         THEN CallFade(0, n) /\ UNCHANGED activations
         ELSE pc' = "poll" /\ target' = target /\ fade_calls' = n /\ UNCHANGED activations
    ELSE IF ~active
         THEN CallFade(mb, n) /\ activations' = activations + 1
         ELSE pc' = "sleep" /\ target' = target /\ fade_calls' = n /\ UNCHANGED activations

\* the poll followed by a resample whenever the phase is Active, persist or not
PollResampleAlways ==
    /\ pc = "poll"
    /\ caller = "main"
    /\ ticks < MaxTicks
    /\ ticks' = ticks + 1
    /\ \/ \E e \in BOOLEAN :
            /\ events_empty' = e
            /\ cmds' = <<>>
            /\ slept' = FALSE
            /\ was_active' = active
            /\ IF active
               THEN /\ pc' = "resample"
                    /\ fade_calls' = 0
                    /\ UNCHANGED <<target, activations>>
               ELSE Dispatch(e, max_brightness, 0)
       \/ /\ Exit
          /\ UNCHANGED <<events_empty, cmds, target, fade_calls, activations, slept,
                         was_active>>
    /\ UNCHANGED <<args, in_sync0, active, max_brightness, resp, cur, caller, hw,
                   last_sample, ext>>

\* poller.poll(&mut events, Some(timeout))?; without a resample the dispatch follows
Poll ==
    /\ pc = "poll"
    /\ caller = "main"
    /\ ticks < MaxTicks
    /\ ticks' = ticks + 1
    /\ \/ \E e \in BOOLEAN :
            /\ events_empty' = e
            /\ cmds' = <<>>
            /\ slept' = FALSE
            /\ was_active' = active
            /\ IF active /\ persist_brightness
               THEN /\ pc' = "resample"
                    /\ fade_calls' = 0
                    /\ UNCHANGED <<target, activations>>
               ELSE Dispatch(e, max_brightness, 0)
       \/ /\ Exit
          /\ UNCHANGED <<events_empty, cmds, target, fade_calls, activations, slept,
                         was_active>>
    /\ UNCHANGED <<args, in_sync0, active, max_brightness, resp, cur, caller, hw, last_sample, ext>>

\* the resample that reads the controller and keeps the old max_brightness
ResampleStale ==
    /\ pc = "resample"
    /\ \/ /\ cmds' = Append(cmds, GetKeyboardBacklight(TRUE))
          /\ UNCHANGED max_brightness
          /\ last_sample' = [valid |-> TRUE, enabled |-> kb_enabled, percent |-> kb_percent]
          /\ Dispatch(events_empty, max_brightness', fade_calls)
       \/ /\ cmds' = Append(cmds, GetKeyboardBacklight(FALSE))
          /\ Exit
          /\ UNCHANGED <<max_brightness, last_sample, target, fade_calls, activations>>
    /\ UNCHANGED <<args, in_sync0, active, events_empty, resp, cur, caller, hw, was_active,
                   slept, ticks, ext>>

\* the resample that carries on after a failed read with the old max_brightness
ResampleUnchecked ==
    /\ pc = "resample"
    /\ \/ /\ cmds' = Append(cmds, GetKeyboardBacklight(TRUE))
          /\ max_brightness' = EcGetKeyboardBacklight.percent
          /\ last_sample' = [valid |-> TRUE, enabled |-> kb_enabled, percent |-> kb_percent]
       \/ /\ cmds' = Append(cmds, GetKeyboardBacklight(FALSE))
          /\ UNCHANGED <<max_brightness, last_sample>>
    /\ Dispatch(events_empty, max_brightness', fade_calls)
    /\ UNCHANGED <<args, in_sync0, active, events_empty, resp, cur, caller, hw, was_active,
                   slept, ticks, ext>>

\* if active && persist { let resp = ec.command(GetKeyboardBacklight)?;
\*                        max_brightness = resp.percent; }  and the dispatch
Resample ==
    /\ pc = "resample"
    /\ \/ /\ cmds' = Append(cmds, GetKeyboardBacklight(TRUE))
          /\ max_brightness' = EcGetKeyboardBacklight.percent
          /\ last_sample' = [valid |-> TRUE, enabled |-> kb_enabled, percent |-> kb_percent]
          /\ Dispatch(events_empty, max_brightness', fade_calls)
       \/ /\ cmds' = Append(cmds, GetKeyboardBacklight(FALSE))
          /\ Exit
          /\ UNCHANGED <<max_brightness, last_sample, target, fade_calls, activations>>
    /\ UNCHANGED <<args, in_sync0, active, events_empty, resp, cur, caller, hw, was_active,
                   slept, ticks, ext>>

\* thread::sleep(Duration::from_millis(500)), then the next turn of the loop
Sleep ==
    /\ pc = "sleep"
    /\ slept' = TRUE
    /\ pc' = "poll"
    /\ UNCHANGED <<args, in_sync0, active, max_brightness, events_empty, target, resp, cur,
                   caller, hw, cmds, fade_calls, activations, last_sample, was_active,
                   ticks, ext>>

\* The backlight is changed from outside the daemon (the brightness key, the
\* firmware) while the daemon is blocked in the readiness wait.
ExternalChange ==
    /\ pc = "poll"
    /\ caller = "main"
    /\ ext < MaxExt
    /\ ext' = ext + 1
    /\ \E e \in BOOLEAN, p \in Levels :
            /\ <<e, p>> # <<kb_enabled, kb_percent>>
            /\ kb_enabled' = e
            /\ kb_percent' = p
    /\ UNCHANGED <<args, in_sync0, active, max_brightness, events_empty, target, resp, cur, pc,
                   caller, led, cmds, fade_calls, activations, last_sample, was_active,
                   slept, ticks>>

\* ------------------------------------------------------- specifications
InitLocals ==
    /\ events_empty = TRUE
    /\ resp = [enabled |-> FALSE, percent |-> 0]
    /\ cur = 0
    /\ cmds = <<>>
    /\ activations = 0
    /\ last_sample = NoSample
    /\ was_active = FALSE
    /\ slept = FALSE
    /\ in_sync0 = ((led = "NONE") <=> ((IF kb_enabled THEN kb_percent ELSE 0) = 0))
    /\ ticks = 0
    /\ ext = 0

\* main() up to the first poll: active = false, max_brightness = args.brightness
Init ==
    /\ power \in BOOLEAN
    /\ persist_brightness \in BOOLEAN
    /\ brightness \in Levels
    /\ active = FALSE
    /\ max_brightness = brightness
    /\ pc = "poll"
    /\ caller = "main"
    /\ kb_enabled \in BOOLEAN
    /\ kb_percent \in Levels
    /\ led \in {"NONE", "AUTO"}
    /\ target = 0
    /\ fade_calls = 0
    /\ InitLocals

Next == Poll \/ Resample \/ FadeGet \/ FadeLoop \/ FadeLed \/ FadeSet \/ Sleep \/ ExternalChange

Spec == Init /\ [][Next]_vars

\* The single thread of main() keeps running: a poll returns at the latest when
\* its timeout elapses, every command returns, every sleep ends.
Run == Poll \/ Resample \/ FadeGet \/ FadeLoop \/ FadeLed \/ FadeSet \/ Sleep

\* The daemon with nothing but itself changing the controller.
SpecLive == Init /\ [][Run]_vars /\ WF_vars(Run)

\* One call fade_to(&ec, power, target) on its own, for every target and every
\* level of an enabled backlight in 0..=100, and the sampled levels of a
\* disabled one.
InitFade ==
    /\ power \in BOOLEAN
    /\ persist_brightness = FALSE
    /\ brightness = DefaultBrightness
    /\ active = FALSE
    /\ max_brightness = brightness
    /\ pc = "fade_get"
    /\ caller = "fade_to"
    /\ kb_enabled \in BOOLEAN
    /\ kb_percent \in (IF kb_enabled THEN Percents ELSE Levels)
    /\ led = "AUTO"
    /\ InitLocals
    /\ target \in Percents
    /\ fade_calls = 1

NextFade == FadeGet \/ FadeLoop \/ FadeLed \/ FadeSet

SpecFade == InitFade /\ [][NextFade]_vars

\* fade_to keeps running: every command returns and every 3 ms sleep ends
SpecFadeLive == InitFade /\ [][NextFade]_vars /\ WF_vars(NextFade)

\* ------------------------------------------------------------ properties
\* the level the control logic is to see in a controller state or response:
\* the percent of an enabled backlight, 0 for a disabled one
EffectiveLevel(r) == IF r.enabled THEN r.percent ELSE 0

Dist(a, b) == IF a > b THEN a - b ELSE b - a

Writes(log) == SelectSeq(log, LAMBDA c : c.op = "SetKeyboardBacklight")
Leds(log) == SelectSeq(log, LAMBDA c : c.op = "LedControl")
Gets(log) == SelectSeq(log, LAMBDA c : c.op = "GetKeyboardBacklight")
AllOk(log) == \A i \in 1..Len(log) : log[i].ok

InFade == pc \in {"fade_loop", "fade_led", "fade_set"}

\* C1: with every command succeeding, the percents fade_to writes go from one
\* unit after the effective current level to the target, one unit per write,
\* never past the target, and a completed fade has written exactly
\* |current - target| of them.
C1_FadeMonotone ==
    LET c == EffectiveLevel(resp)
        w == Writes(cmds)
    IN  ((InFade \/ pc = "returned") /\ AllOk(cmds)) =>
            /\ \A i \in 1..Len(w) : w[i].percent = IF target > c THEN c + i ELSE c - i
            /\ Len(w) <= Dist(c, target)
            /\ (pc = "returned") => Len(w) = Dist(c, target)

\* a completed fade up from 20 to 75 and its 55 writes
C1_Witness ==
    /\ pc = "returned"
    /\ EffectiveLevel(resp) = 20
    /\ target = 75
    /\ Len(Writes(cmds)) = 55
    /\ Writes(cmds)[55].percent = 75

\* C2 as stated: a fade_to that finds the effective current level at the target
\* issues no command at all.
C2_NoCommandAtAll ==
    (pc = "returned" /\ EffectiveLevel(resp) = target) => cmds = <<>>

\* C2 amended: a fade_to that finds the effective current level at the target
\* issues the one GetKeyboardBacklight that reads the level and nothing else:
\* no SetKeyboardBacklight and no LedControl.
C2_OnlyTheRead ==
    (pc = "returned" /\ EffectiveLevel(resp) = target) =>
        cmds = <<GetKeyboardBacklight(TRUE)>>

\* a fade to 50 that finds the backlight enabled at 50 has returned
C2_Witness ==
    /\ pc = "returned"
    /\ resp = [enabled |-> TRUE, percent |-> 50]
    /\ target = 50
    /\ power
    /\ kb_percent = 50

\* a turn of the loop has run to its end and no command failed
TurnDone == pc \in {"sleep", "poll"} /\ ticks > 0

\* C3: starting Idle and with every command succeeding, a turn of the loop that
\* saw activity while Idle has made exactly one fade_to call, towards
\* max_brightness, and left the phase Active; a turn that timed out while
\* Active has made exactly one fade_to call, towards 0, and left the phase
\* Idle; a turn that saw activity while Active has made no fade_to call, has
\* written nothing, and left the phase Active.
C3_StateMachine ==
    /\ fade_calls <= 1
    /\ TurnDone =>
        /\ (~was_active /\ ~events_empty) =>
              fade_calls = 1 /\ target = max_brightness /\ cur = target /\ active
        /\ (was_active /\ events_empty) =>
              fade_calls = 1 /\ target = 0 /\ cur = target /\ ~active
        /\ (was_active /\ ~events_empty) =>
              fade_calls = 0 /\ Writes(cmds) = <<>> /\ Leds(cmds) = <<>> /\ active

\* activity, timeout, activity and activity again: the fourth turn made no call
C3_Witness ==
    /\ pc = "sleep"
    /\ was_active /\ ~events_empty
    /\ activations = 2
    /\ fade_calls = 0
    /\ active
    /\ ticks = 4

Count(log, c) == Len(SelectSeq(log, LAMBDA x : x = c))

OkWrites(log) == SelectSeq(log, LAMBDA c : c.op = "SetKeyboardBacklight" /\ c.ok)

\* only the last command issued can be a failed one, and after it main() is left
FailureIsLast ==
    /\ \A i \in 1..(Len(cmds) - 1) : cmds[i].ok
    /\ (cmds # <<>> /\ ~cmds[Len(cmds)].ok) => pc = "exit"

\* C5: a failed command ends fade_to with the error: no command follows it, the
\* failed step changes nothing in the controller, and the backlight holds the
\* percent of the last successful write of the fade, or what the fade found
\* when none succeeded.
C5_AbortOnFailure ==
    /\ [](/\ FailureIsLast
          /\ LET w == OkWrites(cmds)
             IN  IF w # <<>>
                 THEN kb_percent = w[Len(w)].percent
                 ELSE (cmds # <<>> /\ cmds[1].ok) =>
                          resp = [enabled |-> kb_enabled, percent |-> kb_percent])
    /\ [][(pc' = "exit" => UNCHANGED <<kb_enabled, kb_percent, led>>) /\ pc # "exit"]_vars

\* a fade up that failed at the write of 11 after ten writes: the backlight is at 10
C5_Witness ==
    /\ pc = "exit"
    /\ Len(OkWrites(cmds)) = 10
    /\ cmds[Len(cmds)] = SetKeyboardBacklight(11, FALSE)
    /\ kb_percent = 10
    /\ cur = 11

\* C6: in the control loop a failed command, in a fade or in the persist
\* resample, is the last thing the daemon does: it is not retried, no command
\* and no readiness wait follows, and the failed step leaves the phase and
\* max_brightness as they were.
C6_FatalNoRetry ==
    /\ []FailureIsLast
    /\ [][/\ pc # "exit"
          /\ pc' = "exit" => /\ active' = active
                              /\ max_brightness' = max_brightness
                              /\ UNCHANGED hw]_vars

\* the persist resample failed while Active: the daemon has ended, still Active
C6_Witness ==
    /\ pc = "exit"
    /\ caller = "main"
    /\ cmds = <<GetKeyboardBacklight(FALSE)>>
    /\ active
    /\ persist_brightness
    /\ fade_calls = 0

\* the commands of a successful fade from effective level 0 up to t
UpFromZero(t, p) ==
    <<GetKeyboardBacklight(TRUE)>>
    \o (IF p /\ t >= 1 THEN <<LedControl("AUTO", TRUE)>> ELSE <<>>)
    \o [i \in 1..t |-> SetKeyboardBacklight(i, TRUE)]

\* C7: a fade_to whose read reports the backlight disabled, at whatever percent,
\* issues the commands of a fade_to whose read reports it enabled at percent 0:
\* the read and the ramp from 1 up to the target.
C7_DisabledReadsAsZero ==
    (pc = "returned" /\ (~resp.enabled \/ resp.percent = 0)) =>
        cmds = UpFromZero(target, power)

\* the backlight was reported disabled at 50 and the fade to 30 ramped up from 1
C7_Witness ==
    /\ pc = "returned"
    /\ resp = [enabled |-> FALSE, percent |-> 50]
    /\ target = 30
    /\ power
    /\ Len(cmds) = 32
    /\ kb_percent = 30

\* C8: the percent reported with enabled=false has no influence on the control
\* logic: a persist resample that finds the backlight disabled leaves
\* max_brightness at 0, the value of the run in which the controller reports
\* percent 0 in its place.
C8_DisabledIsZeroInResample ==
    (last_sample.valid /\ ~last_sample.enabled) => max_brightness = 0

\* C9: in the persist variant every turn of the loop taken while Active starts
\* with a read of the controller, the percent the controller holds at that read
\* becomes max_brightness, and a fade out of Idle that follows a resample is
\* sent to the percent of the latest resample.
C9_PersistResample ==
    /\ []((persist_brightness /\ was_active /\ ticks > 0 /\ pc # "resample") =>
            /\ cmds # <<>>
            /\ cmds[1].op = "GetKeyboardBacklight"
            /\ cmds[1].ok => (last_sample.valid /\ max_brightness = last_sample.percent))
    /\ []((/\ last_sample.valid
           /\ ~was_active /\ ~events_empty /\ ticks > 0
           /\ (InFade \/ pc \in {"fade_get", "sleep"})) =>
            target = last_sample.percent)
    /\ [][(pc = "resample" /\ pc' # "exit") => max_brightness' = kb_percent]_vars
    /\ [][max_brightness' # max_brightness => pc = "resample"]_vars

\* configured with 30, resampled at 50 while Active, and faded back up to 50
C9_Witness ==
    /\ pc = "sleep"
    /\ persist_brightness
    /\ ~was_active
    /\ brightness = DefaultBrightness
    /\ last_sample.valid /\ last_sample.percent = 50
    /\ target = 50
    /\ kb_percent = 50
    /\ Len(Writes(cmds)) = 50

\* C10: the daemon starts Idle and issues nothing before the first readiness
\* wait; as long as it has not left Idle no command is issued, whatever level
\* the backlight is at, and the phase, max_brightness and the controller are
\* left alone; the first activity with brightness 30, no power flag and the
\* backlight at 0 issues the read and the writes 1, 2, ..., 30 in that order.
C10_IdleFrame ==
    /\ [](ticks = 0 => (pc = "poll" /\ ~active /\ cmds = <<>>))
    /\ [](activations = 0 =>
            /\ pc \in {"poll", "exit"}
            /\ ~active
            /\ max_brightness = brightness
            /\ fade_calls = 0
            /\ cmds = <<>>)
    /\ []((/\ pc = "sleep" /\ activations = 1 /\ ~was_active
           /\ brightness = DefaultBrightness /\ ~power
           /\ EffectiveLevel(resp) = 0) =>
            cmds = <<GetKeyboardBacklight(TRUE)>>
                   \o [i \in 1..DefaultBrightness |-> SetKeyboardBacklight(i, TRUE)])
    /\ [][(activations' = 0 /\ ext' = ext) => UNCHANGED <<hw, active, max_brightness>>]_vars

\* two timeouts while Idle, then the first activity: the ramp 1..30 was written
C10_Witness ==
    /\ pc = "sleep"
    /\ activations = 1
    /\ ticks = 3
    /\ ext = 0
    /\ brightness = DefaultBrightness /\ ~power
    /\ resp = [enabled |-> TRUE, percent |-> 0]
    /\ Len(cmds) = 31
    /\ kb_percent = DefaultBrightness

FadePcs == {"fade_get", "fade_loop", "fade_led", "fade_set"}

\* C11: from its entry to its return a fade_to is left only by running to its
\* end (cur at the target) or by the error of a failed command: while it runs
\* no readiness wait returns, the outcome of the last wait stays what it was,
\* and the phase does not change; the next wait begins with the fade complete.
C11_FadeNotInterrupted ==
    /\ [][(pc \in FadePcs) =>
            /\ ticks' = ticks
            /\ events_empty' = events_empty
            /\ target' = target
            /\ \/ pc' \in FadePcs /\ active' = active
               \/ pc' = "exit" /\ active' = active
               \/ pc = "fade_loop" /\ cur = target /\ pc' \in {"poll", "sleep", "returned"}]_vars
    /\ []((pc \in {"poll", "sleep"} /\ fade_calls = 1) =>
            /\ cur = target
            /\ AllOk(cmds)
            /\ Writes(cmds) # <<>> => kb_percent = target \/ ext > 0)

\* one turn of the loop, the first, holds the whole fade from 0 up to 100
C11_Witness ==
    /\ pc = "sleep"
    /\ ticks = 1
    /\ fade_calls = 1
    /\ Len(Writes(cmds)) = MaxPercent
    /\ active

\* C12: with the configured brightness and every reported percent in 0..=100,
\* every SetKeyboardBacklight of the daemon carries a percent in 0..=100, in
\* persist and non-persist runs alike, and a step of the fade loop moves cur by
\* one without wrapping round the ends of the u8.
C12_PercentInRange ==
    /\ [](\A i \in 1..Len(cmds) :
            cmds[i].op = "SetKeyboardBacklight" => cmds[i].percent \in Percents)
    /\ [](cur \in Percents /\ target \in Percents /\ max_brightness \in Percents)
    /\ [][(pc = "fade_loop" /\ cur # target) => (cur' = cur + 1 \/ cur' = cur - 1)]_vars

\* a persist run has faded down from 100 to 0
C12_Witness ==
    /\ pc = "poll"
    /\ persist_brightness
    /\ Len(Writes(cmds)) = MaxPercent
    /\ cmds[Len(cmds)] = SetKeyboardBacklight(0, TRUE)
    /\ cmds[2] = SetKeyboardBacklight(MaxPercent - 1, TRUE) \/ cmds[3] = SetKeyboardBacklight(MaxPercent - 1, TRUE)

Controller == [enabled |-> kb_enabled, percent |-> kb_percent]

\* C13: with the power flag set, no failed command and no change from outside,
\* a run that starts with the power LED off exactly when the effective level
\* of the backlight is 0 has, at every readiness wait, the power LED at NONE
\* exactly when the effective level is 0 and at AUTO otherwise.
C13_LedInSync ==
    (power /\ in_sync0 /\ ext = 0 /\ caller = "main" /\ pc \in {"poll", "sleep"}) =>
        led = IF EffectiveLevel(Controller) = 0 THEN "NONE" ELSE "AUTO"

\* faded up to 30 and down again: the LED went to AUTO and is back at NONE
C13_Witness ==
    /\ power /\ in_sync0 /\ ext = 0
    /\ pc = "poll"
    /\ activations = 1
    /\ ~active
    /\ led = "NONE"
    /\ Len(Writes(cmds)) = DefaultBrightness
    /\ kb_percent = 0

\* the last readiness wait timed out with the phase Active, which it still is
TimedOutActive == active /\ was_active /\ events_empty /\ ticks > 0

\* C14: once a readiness wait times out with the phase Active, and no command
\* fails, the daemon reaches the next wait with the phase Idle and the
\* backlight at effective level 0; the fade to 0 returns into exactly that
\* state, and the timeouts that follow while Idle leave the phase and the
\* controller as they are.
C14_TimeoutReachesIdle ==
    /\ TimedOutActive ~>
          (pc = "exit" \/ (pc = "poll" /\ ~active /\ EffectiveLevel(Controller) = 0))
    /\ [][(pc = "fade_loop" /\ pc' = "poll") =>
            (was_active /\ ~active' /\ EffectiveLevel(Controller) = 0 /\ UNCHANGED hw)]_vars
    /\ [][(pc = "poll" /\ ~active /\ ticks' # ticks /\ events_empty' /\ pc' # "exit") =>
            (pc' = "poll" /\ ~active' /\ UNCHANGED hw)]_vars

\* Active at 50, a timeout, the fade down, and one more timeout while Idle
C14_Witness ==
    /\ pc = "poll"
    /\ ~was_active /\ events_empty
    /\ ticks = 3
    /\ activations = 1
    /\ ~active
    /\ brightness = 50
    /\ Controller = [enabled |-> FALSE, percent |-> 0]
    /\ ext = 0

\* C15: for every effective current level and target in 0..=100 fade_to comes
\* to an end, by returning or with the error of a failed command; each turn of
\* its loop brings cur exactly one unit nearer to the target, and it returns
\* with cur at the target and every command succeeded.
C15_FadeTerminates ==
    /\ <>(pc \in {"returned", "exit"})
    /\ [](pc = "returned" => (cur = target /\ AllOk(cmds)))
    /\ [][(pc = "fade_loop" /\ cur # target) =>
            Dist(cur', target) = Dist(cur, target) - 1]_vars

\* the longest fade, from 100 down to 0, has returned
C15_Witness ==
    /\ pc = "returned"
    /\ resp = [enabled |-> TRUE, percent |-> MaxPercent]
    /\ target = 0
    /\ cur = 0
    /\ ~power
    /\ Len(cmds) = MaxPercent + 1

\* C16: without the persist flag max_brightness stays the configured
\* brightness, every fade out of Idle is sent to the configured brightness, and
\* the only GetKeyboardBacklight of a turn of the loop is the read that opens
\* its fade_to.
C16_NoPersistFixedTarget ==
    ~persist_brightness =>
        /\ max_brightness = brightness
        /\ pc # "resample"
        /\ (pc \in FadePcs /\ ~events_empty) => target = brightness
        /\ (pc = "sleep" /\ fade_calls = 1) => target = brightness
        /\ \A i \in 1..Len(cmds) : cmds[i].op = "GetKeyboardBacklight" => i = 1
        /\ Len(Gets(cmds)) = IF pc = "fade_get" THEN fade_calls - 1 ELSE fade_calls

\* set to 50 from outside while Active, timed out, and faded back up to the
\* configured 30
C16_Witness ==
    /\ ~persist_brightness
    /\ pc = "sleep"
    /\ activations = 2
    /\ ext = 1
    /\ brightness = DefaultBrightness
    /\ target = DefaultBrightness
    /\ kb_percent = DefaultBrightness
    /\ Len(Writes(cmds)) = DefaultBrightness

\* C17: without the power flag the daemon never issues a LedControl and the
\* power LED is never changed, whatever levels its fades pass through.
C17_NoLedWithoutPower ==
    /\ [](~power => (Leds(cmds) = <<>> /\ pc # "fade_led"))
    /\ [][~power => led' = led]_vars

\* without the power flag: faded up through 1 to 30 and down through 1 to 0
C17_Witness ==
    /\ ~power
    /\ pc = "poll"
    /\ activations = 1
    /\ ~active
    /\ Len(Writes(cmds)) = DefaultBrightness
    /\ cmds[Len(cmds)] = SetKeyboardBacklight(0, TRUE)
    /\ cmds[Len(cmds) - 1] = SetKeyboardBacklight(1, TRUE)

OkLeds(log) == SelectSeq(log, LAMBDA c : c.op = "LedControl" /\ c.ok)

\* what the controller holds after the successful commands of the log of a
\* fade that found it at r with the power LED at l
HeldPercent(log, r) ==
    IF OkWrites(log) # <<>> THEN OkWrites(log)[Len(OkWrites(log))].percent ELSE r.percent
HeldLed(log, l) ==
    IF OkLeds(log) # <<>> THEN OkLeds(log)[Len(OkLeds(log))].flags ELSE l

\* C18: in a step of the fade that switches the LED the LedControl is issued
\* before the SetKeyboardBacklight of that step. When the LedControl fails the
\* write of that step is never issued and LED and backlight are as before the
\* step; when the LedControl succeeds and the write fails the LED is switched
\* and the backlight holds the percent of before the step.
C18_LedBeforeWrite ==
    LET n == Len(cmds) IN
    /\ \A i \in 1..n :
          (cmds[i].op = "SetKeyboardBacklight" /\ power /\ cmds[i].percent \in {0, 1}) =>
              /\ i > 1
              /\ cmds[i - 1] = LedControl(IF cmds[i].percent = 0 THEN "NONE" ELSE "AUTO", TRUE)
    /\ (pc = "exit" /\ n > 0 /\ cmds[n].op = "LedControl" /\ ~cmds[n].ok) =>
          LET p == IF cmds[n].flags = "NONE" THEN 0 ELSE 1 IN
          /\ cur = p
          /\ \A i \in 1..n : ~(cmds[i].op = "SetKeyboardBacklight" /\ cmds[i].percent = p)
          /\ kb_percent = HeldPercent(cmds, resp)
          /\ led = HeldLed(cmds, "AUTO")
    /\ (pc = "exit" /\ n > 0 /\ power /\ cmds[n].op = "SetKeyboardBacklight"
          /\ cmds[n].percent \in {0, 1}) =>
          /\ led = IF cmds[n].percent = 0 THEN "NONE" ELSE "AUTO"
          /\ kb_percent = HeldPercent(cmds, resp)
          /\ EffectiveLevel(Controller) # cmds[n].percent

\* the fade down to 0 switched the LED off and then failed to write the 0
C18_Witness ==
    /\ pc = "exit"
    /\ power
    /\ cmds[Len(cmds)] = SetKeyboardBacklight(0, FALSE)
    /\ cmds[Len(cmds) - 1] = LedControl("NONE", TRUE)
    /\ led = "NONE"
    /\ kb_percent = 1
    /\ kb_enabled

\* C19: the 500 ms pause is taken in every turn of the loop whose wait reported
\* activity, after the fade when the turn left Idle and without one when the
\* phase was Active already, and in no turn whose wait timed out; the next
\* wait begins after the pause.
C19_PauseAfterActivity ==
    /\ []((pc = "poll" /\ ticks > 0) => (slept <=> ~events_empty))
    /\ [](pc = "sleep" => (~events_empty /\ ~slept /\ active))
    /\ [][(pc = "fade_loop" /\ cur = target /\ ~events_empty) => pc' = "sleep"]_vars
    /\ [][(slept' /\ ~slept) => (pc = "sleep" /\ pc' = "poll" /\ ticks' = ticks)]_vars

\* activity while Active: no fade, and the pause was taken before the next wait
C19_Witness ==
    /\ pc = "poll"
    /\ slept
    /\ was_active /\ ~events_empty
    /\ fade_calls = 0
    /\ cmds = <<>>
    /\ ticks = 2

====
